---- MODULE Spec2Model ----
(***************************************************************************)
(* The autograd notebook (src/autograd.ipynb): its example cells, run      *)
(* against a reverse-mode automatic-differentiation engine (value nodes,   *)
(* operation records, backward traversal), and its logistic-regression     *)
(* cell, run against the descent driver.                                   *)
(*                                                                         *)
(* Payloads are fixed-point numbers: the integer v stands for v / Scale.   *)
(* A tensor is the flat sequence of its elements; a scalar has length 1.   *)
(***************************************************************************)
EXTENDS Integers, Sequences, FiniteSets, TLC

VARIABLES
    cell,      \* the notebook cell being run, or "free" (any sequence of operations)
    prog,      \* the statements of the cell (empty for "free")
    pc,        \* index of the next statement of the cell
    nodes,     \* the value nodes created so far, in creation order
    grad,      \* grad[n]: the accumulated-gradient slot of node n (<<>>: empty)
    bw,        \* the backward pass in progress
    fired,     \* log of the derivative rules invoked: [n |-> node, p |-> pass]
    calls,     \* log of the backward() calls: [root |-> node, res |-> outcome]
    err,       \* the error surfaced to the caller, "none" if none
    dpc,       \* position in the logistic-regression cell
    nsteps,    \* number of estimates in the sequence adagrad has built
    delta,     \* distance between the last two estimates, in units of PRECISION
    model,     \* the dataset the trained model was fitted on ("none" before)
    evals      \* log of the evaluate() calls: evidence and response handed over

agVars == <<cell, prog, pc, nodes, grad, bw, fired, calls, err>>
lrVars == <<dpc, nsteps, delta, model, evals>>
vars == <<cell, prog, pc, nodes, grad, bw, fired, calls, err,
          dpc, nsteps, delta, model, evals>>

----------------------------------------------------------------------------
(* Bounds of the model *)

\* leaf values of the cells are drawn from 1..MaxVal
MaxVal == 4
\* number of nodes a free sequence of operations may create
MaxNodes == 4
\* number of backward() calls in a free sequence of operations
MaxPasses == MaxNodes \div 2
\* largest distance between consecutive estimates, in units of PRECISION
MaxDelta == 2

----------------------------------------------------------------------------
(* Fixed-point arithmetic on payloads *)

Scale == 1000

None == <<>>

Fix(i) == i * Scale

FMul(a, b) == (a * b) \div Scale

FDiv(a, b) == (a * Scale) \div b

RECURSIVE FPow(_, _)
FPow(a, k) == IF k = 0 THEN Scale ELSE FMul(a, FPow(a, k - 1))

\* cos and sin by their Taylor polynomials, enough for |a| < pi/2
FCos(a) ==
    LET a2 == FMul(a, a)
        a4 == FMul(a2, a2)
        a6 == FMul(a4, a2)
    IN  Scale - (a2 \div 2) + (a4 \div 24) - (a6 \div 720)

FSin(a) ==
    LET a2 == FMul(a, a)
        a3 == FMul(a2, a)
        a5 == FMul(a3, a2)
        a7 == FMul(a5, a2)
    IN  a - (a3 \div 6) + (a5 \div 120) - (a7 \div 5040)

RECURSIVE SumSeq(_)
SumSeq(s) == IF s = <<>> THEN 0 ELSE Head(s) + SumSeq(Tail(s))

\* elementwise sum, product and quotient of two tensors of one shape
TAdd(a, b) == [i \in 1..Len(a) |-> a[i] + b[i]]

TMul(a, b) == [i \in 1..Len(a) |-> FMul(a[i], b[i])]

TDiv(a, b) == [i \in 1..Len(a) |-> FDiv(a[i], b[i])]

Broadcast(v, n) == [i \in 1..n |-> v]

----------------------------------------------------------------------------
(* Value nodes and the operation library *)

UnaryOps == {"addc", "mulc", "divc", "pow", "sin", "cos", "sum", "mean"}
BinaryOps == {"add", "mul", "div"}
ArithOps == UnaryOps \cup BinaryOps

\* A statement of a cell: an operation applied to earlier nodes a and b, with
\* the Python scalar k, or a leaf with payload val and tracking flag req.
Stmt(op, a, b, k, val, req) ==
    [op |-> op, a |-> a, b |-> b, k |-> k, val |-> val, req |-> req]

Leaf(val, req) == Stmt("leaf", 0, 0, 0, val, req)
Un(op, a, k) == Stmt(op, a, 0, k, None, FALSE)
Bin(op, a, b) == Stmt(op, a, b, 0, None, FALSE)
Call(op, a) == Stmt(op, a, 0, 0, None, FALSE)

\* the forward computation of an operation
Forward(op, x, y, k) ==
    CASE op = "add"  -> TAdd(x, y)
      [] op = "mul"  -> TMul(x, y)
      [] op = "div"  -> TDiv(x, y)
      [] op = "addc" -> [i \in 1..Len(x) |-> x[i] + Fix(k)]
      [] op = "mulc" -> [i \in 1..Len(x) |-> x[i] * k]
      [] op = "divc" -> [i \in 1..Len(x) |-> x[i] \div k]
      [] op = "pow"  -> [i \in 1..Len(x) |-> FPow(x[i], k)]
      [] op = "sin"  -> [i \in 1..Len(x) |-> FSin(x[i])]
      [] op = "cos"  -> [i \in 1..Len(x) |-> FCos(x[i])]
      [] op = "sum"  -> <<SumSeq(x)>>
      [] op = "mean" -> <<SumSeq(x) \div Len(x)>>
      [] op = "clone" -> x

\* the local derivative rule of the operation record of node m: the
\* contribution to each input, given the upstream gradient up
LocalDeriv(g, m, up) ==
    LET op == g[m].src
        k == g[m].k
        x == g[g[m].ins[1]].val
        y == IF Len(g[m].ins) > 1 THEN g[g[m].ins[2]].val ELSE None
        n == Len(x)
    IN  CASE op = "add"  -> <<up, up>>
          [] op = "mul"  -> <<TMul(y, up), TMul(x, up)>>
          [] op = "div"  -> << TDiv(up, y),
                               [i \in 1..n |->
                                   0 - FDiv(FMul(x[i], up[i]), FMul(y[i], y[i]))] >>
          [] op = "addc" -> <<up>>
          [] op = "mulc" -> <<[i \in 1..n |-> up[i] * k]>>
          [] op = "divc" -> <<[i \in 1..n |-> up[i] \div k]>>
          [] op = "pow"  -> <<[i \in 1..n |-> FMul(k * FPow(x[i], k - 1), up[i])]>>
          [] op = "sin"  -> <<[i \in 1..n |-> FMul(FCos(x[i]), up[i])]>>
          [] op = "cos"  -> <<[i \in 1..n |-> FMul(0 - FSin(x[i]), up[i])]>>
          [] op = "sum"  -> <<Broadcast(up[1], n)>>
          [] op = "mean" -> <<Broadcast(up[1] \div n, n)>>
          [] op = "clone" -> <<up>>

\* a slot that keeps only the last contribution
AccumulateOverwrite(slot, c) == c

\* accumulation into a gradient slot: added, not overwritten
Accumulate(slot, c) == IF slot = None THEN c ELSE TAdd(slot, c)

\* the tracking flag of an operation's output: the OR of its inputs' flags
OutputFlag(g, ins) == \E i \in 1..Len(ins) : g[ins[i]].req

\* a node: payload, tracking flag, whether it has an operation record, the
\* operation that produced it, its inputs and the scalar of the operation
Node(val, req, rec, src, ins, k) ==
    [val |-> val, req |-> req, rec |-> rec, src |-> src, ins |-> ins, k |-> k]

InSeq(x, s) == \E i \in 1..Len(s) : s[i] = x

Reverse(s) == [i \in 1..Len(s) |-> s[Len(s) + 1 - i]]

\* depth-first postorder of the tracked nodes reachable from n through the
\* operation records, appended to ord
RECURSIVE Visit(_, _, _)
RECURSIVE VisitAll(_, _, _, _)
Visit(g, n, ord) ==
    IF ~g[n].req \/ InSeq(n, ord) THEN ord
    ELSE IF g[n].rec THEN Append(VisitAll(g, g[n].ins, 1, ord), n)
    ELSE Append(ord, n)
VisitAll(g, ins, i, ord) ==
    IF i > Len(ins) THEN ord ELSE VisitAll(g, ins, i + 1, Visit(g, ins[i], ord))

\* depth-first preorder: a node is placed when first met, before the rest of
\* its consumers
RECURSIVE Pre(_, _, _)
RECURSIVE PreAll(_, _, _, _)
Pre(g, n, ord) ==
    IF ~g[n].req \/ InSeq(n, ord) THEN ord
    ELSE IF g[n].rec THEN PreAll(g, g[n].ins, 1, Append(ord, n))
    ELSE Append(ord, n)
PreAll(g, ins, i, ord) ==
    IF i > Len(ins) THEN ord ELSE PreAll(g, ins, i + 1, Pre(g, ins[i], ord))
TopoOrderPre(g, root) == Pre(g, root, <<>>)

\* reverse topological order of the subgraph reachable from root
TopoOrder(g, root) == Reverse(Visit(g, root, <<>>))

\* the nodes a backward pass from root reaches
Reach(g, root) == {TopoOrder(g, root)[i] : i \in 1..Len(TopoOrder(g, root))}

----------------------------------------------------------------------------
(* The notebook's cells *)

\* math.pi, as a fixed-point payload
Pi == 3142

\* x = tensor(3., requires_grad=True); y = x**2; y.backward()
CellSquare(x) ==
    << Leaf(<<Fix(x)>>, TRUE), Un("pow", 1, 2), Call("backward", 2) >>

\* x = tensor([3., 4.], requires_grad=True); y = (x**2).sum(); y.backward()
CellVectorSum(x) ==
    << Leaf(<<Fix(x[1]), Fix(x[2])>>, TRUE), Un("pow", 1, 2), Un("sum", 2, 0),
       Call("backward", 3) >>

\* x = tensor([3., 4.], requires_grad=True); y = (2*x**3).mean(); y.backward()
CellVectorMean(x) ==
    << Leaf(<<Fix(x[1]), Fix(x[2])>>, TRUE), Un("pow", 1, 3), Un("mulc", 2, 2),
       Un("mean", 3, 0), Call("backward", 4) >>

\* the chain-rule cell with z = y * y
CellChainNoScale(x) ==
    << Leaf([i \in 1..4 |-> Fix(x[i])], TRUE), Un("addc", 1, 2), Bin("mul", 2, 2),
       Un("mulc", 3, 1), Un("sum", 4, 0), Call("backward", 5) >>

\* x = tensor(2x2, requires_grad=True); y = x + 2; z = y * y * 3;
\* out = z.sum(); out.backward()
CellChain(x) ==
    << Leaf([i \in 1..4 |-> Fix(x[i])], TRUE), Un("addc", 1, 2), Bin("mul", 2, 2),
       Un("mulc", 3, 3), Un("sum", 4, 0), Call("backward", 5) >>

\* theta (node 1), b (node 2), c = b / cos(theta) (node 4),
\* h = c * sin(theta) (node 6), a = (h * b) / 2. (node 8)
Triangle(theta, b, track) ==
    << Leaf(<<theta>>, track), Leaf(<<Fix(b)>>, FALSE), Un("cos", 1, 0),
       Bin("div", 2, 3), Un("sin", 1, 0), Bin("mul", 4, 5), Bin("mul", 6, 2),
       Un("divc", 7, 2) >>

\* the triangle cell with b = tensor(4., requires_grad=True)
CellTriangleTrackB(theta, b) ==
    << Leaf(<<theta>>, TRUE), Leaf(<<Fix(b)>>, TRUE), Un("cos", 1, 0),
       Bin("div", 2, 3), Un("sin", 1, 0), Bin("mul", 4, 5), Bin("mul", 6, 2),
       Un("divc", 7, 2), Call("backward", 8) >>

\* theta = tensor(pi/4, requires_grad=True); b = tensor(4.); ...; a.backward()
CellTriangle(theta, b) == Append(Triangle(theta, b, TRUE), Call("backward", 8))

\* the untracked-theta cell with requires_grad=True put back on theta
CellUntrackedFixed(theta, b) == Append(Triangle(theta, b, TRUE), Call("backward", 8))

\* theta = tensor(pi/4); b = tensor(4.); ...; a.backward()
CellUntracked(theta, b) == Append(Triangle(theta, b, FALSE), Call("backward", 8))

\* the flags cell with requires_grad=True left off theta
CellFlagsNoTheta(theta, b) == Triangle(theta, b, FALSE)

\* theta = tensor(pi/4, requires_grad=True); b = tensor(4.); ... (flags printed)
CellFlags(theta, b) == Triangle(theta, b, TRUE)

\* theta = tensor(pi/4, requires_grad=True); theta_clone = theta.clone()
CellCloneFlag(theta) == << Leaf(<<theta>>, TRUE), Call("clone", 1) >>

\* the clone cell with b = a.clone().detach().requires_grad_(True)
CellCloneDetached(a) ==
    << Leaf(<<Fix(a)>>, TRUE), Call("clone", 1), Call("detach", 2),
       Call("requires_grad_", 3), Un("pow", 3, 2), Call("backward", 4) >>

\* a = tensor(4., requires_grad=True); b = a.clone(); c = b ** 2; c.backward()
CellClone(a) ==
    << Leaf(<<Fix(a)>>, TRUE), Call("clone", 1), Un("pow", 2, 2),
       Call("backward", 3) >>

\* the detach cell with b = a.clone() only
CellDetachForgotten(a) ==
    << Leaf(<<Fix(a)>>, TRUE), Call("clone", 1), Un("pow", 2, 2),
       Call("backward", 3) >>

\* a = tensor(4., requires_grad=True);
\* b = a.clone().detach().requires_grad_(True); c = b ** 2; c.backward()
CellDetach(a) ==
    << Leaf(<<Fix(a)>>, TRUE), Call("clone", 1), Call("detach", 2),
       Call("requires_grad_", 3), Un("pow", 3, 2), Call("backward", 4) >>

CellNames ==
    {"square", "vecsum", "vecmean", "chain", "triangle", "untracked", "flags",
     "cloneflag", "clone", "detach"}

Vals == 1..MaxVal
Thetas == {Pi \div 6, Pi \div 4, Pi \div 3}

\* the programs a cell stands for, over the bounded input values
Programs(c) ==
    CASE c = "square"    -> {CellSquare(x) : x \in Vals}
      [] c = "vecsum"    -> {CellVectorSum(x) : x \in Vals \X Vals}
      [] c = "vecmean"   -> {CellVectorMean(x) : x \in Vals \X Vals}
      [] c = "chain"     -> {CellChain(x) : x \in Vals \X Vals \X Vals \X Vals}
      [] c = "triangle"  -> {CellTriangle(t, b) : t \in Thetas, b \in Vals}
      [] c = "untracked" -> {CellUntracked(t, b) : t \in Thetas, b \in Vals}
      [] c = "flags"     -> {CellFlags(t, b) : t \in Thetas, b \in Vals}
      [] c = "cloneflag" -> {CellCloneFlag(t) : t \in Thetas}
      [] c = "clone"     -> {CellClone(a) : a \in Vals}
      [] c = "detach"    -> {CellDetach(a) : a \in Vals}
      [] c = "free"      -> {<<>>}

----------------------------------------------------------------------------
(* Running a cell: one action per operation of the engine *)

Idle == [active |-> FALSE, root |-> 0, order |-> <<>>, pos |-> 0, acc |-> <<>>]

N == Len(nodes)

\* the nodes that some operation has consumed
Consumed == UNION {{nodes[m].ins[i] : i \in 1..Len(nodes[m].ins)} : m \in 1..N}

Consumers(g, n) == {m \in 1..Len(g) : InSeq(n, g[m].ins)}

\* a backward pass from root would meet an operation record already used
Spent(root) ==
    \E i \in 1..Len(fired) : nodes[fired[i].n].rec /\ fired[i].n \in Reach(nodes, root)

\* payloads of a free sequence stay within 32-bit products
Fits(op, i, j) ==
    \A e \in 1..Len(nodes[i].val) :
        LET v == Forward(op, nodes[i].val, nodes[j].val, 0)[e]
        IN  v <= Fix(10 * MaxVal) /\ v >= 0

\* the statements a free sequence of operations may run next: it builds
\* nodes until its last backward pass, and differentiates the node it has
\* just built (any other root is the same run with the creations reordered)
FreeStmts ==
    (IF N < MaxNodes /\ Len(calls) < MaxPasses
       THEN {Leaf(<<Fix(v)>>, r) : v \in {3}, r \in BOOLEAN}
            \cup {Bin(op, i, j) : op \in {"add", "mul"}, i \in 1..N, j \in 1..N}
            \cup {Call(op, i) : op \in {"clone", "detach"}, i \in 1..N}
            \cup {Call("requires_grad_", i) : i \in {N} \ {0}}
       ELSE {})
    \cup (IF N > 0 /\ Len(calls) < MaxPasses THEN {Call("backward", N)} ELSE {})

\* what may run next: the cell's next statement, or any statement when free
Choices ==
    IF cell = "free" THEN FreeStmts
    ELSE IF pc <= Len(prog) THEN {prog[pc]} ELSE {}

Ready == err = "none" /\ ~bw.active /\ dpc = "off"

Create(node) ==
    /\ nodes' = Append(nodes, node)
    /\ grad' = Append(grad, None)
    /\ pc' = pc + 1
    /\ UNCHANGED <<cell, prog, bw, fired, calls, err>>
    /\ UNCHANGED lrVars

\* makeLeaf(payload, trackGradient): torch.tensor(..., requires_grad=...)
MakeLeaf ==
    /\ Ready
    /\ \E s \in Choices :
        /\ s.op = "leaf"
        /\ Create(Node(s.val, s.req, FALSE, "leaf", <<>>, 0))

\* an elementwise or reduction operation on earlier nodes
ApplyOp ==
    /\ Ready
    /\ \E s \in Choices :
        /\ s.op \in ArithOps
        /\ LET ins == IF s.op \in BinaryOps THEN <<s.a, s.b>> ELSE <<s.a>>
               y == IF s.op \in BinaryOps THEN nodes[s.b].val ELSE None
               track == OutputFlag(nodes, ins)
           IN  /\ s.op \in BinaryOps => Len(nodes[s.a].val) = Len(nodes[s.b].val)
               /\ cell = "free" => Fits(s.op, s.a, s.b)
               /\ Create(Node(Forward(s.op, nodes[s.a].val, y, s.k),
                              track, track, s.op, ins, s.k))

\* clone(): a pass-through of its source, sharing its tracking flag
Clone ==
    /\ Ready
    /\ \E s \in Choices :
        /\ s.op = "clone"
        /\ Create(Node(Forward("clone", nodes[s.a].val, None, 0),
                       nodes[s.a].req, nodes[s.a].req, "clone", <<s.a>>, 0))

\* detach(): same payload, flag forced false, no operation record
Detach ==
    /\ Ready
    /\ \E s \in Choices :
        /\ s.op = "detach"
        /\ Create(Node(nodes[s.a].val, FALSE, FALSE, "detach", <<s.a>>, 0))

\* requires_grad_(True), as the notebook uses it: on a node fresh from
\* detach() that nothing has consumed yet
RequiresGrad ==
    /\ Ready
    /\ \E s \in Choices :
        /\ s.op = "requires_grad_"
        /\ nodes[s.a].src = "detach"
        /\ ~nodes[s.a].req
        /\ s.a \notin Consumed
        /\ nodes' = [nodes EXCEPT ![s.a].req = TRUE]
        /\ pc' = pc + 1
        /\ UNCHANGED <<cell, prog, grad, bw, fired, calls, err>>
        /\ UNCHANGED lrVars

\* the outcome of backward() on root before any traversal
BackwardCheck(g, root) ==
    IF Len(g[root].val) # 1 THEN "ShapeMismatch"
    ELSE IF ~g[root].req THEN "UntrackedRoot"
    ELSE "ok"

\* backward(): checks the root, orders the reachable subgraph, seeds the root.
\* A graph is differentiated once: no cell calls backward() again through
\* operation records an earlier pass has used.
Backward ==
    /\ Ready
    /\ \E s \in Choices :
        /\ s.op = "backward"
        /\ ~Spent(s.a)
        /\ LET res == BackwardCheck(nodes, s.a)
           IN  /\ calls' = Append(calls, [root |-> s.a, res |-> res])
               /\ IF res = "ok"
                    THEN /\ bw' = [active |-> TRUE, root |-> s.a,
                                   order |-> TopoOrder(nodes, s.a), pos |-> 1,
                                   acc |-> [n \in 1..N |->
                                              IF n = s.a THEN <<Scale>> ELSE None]]
                         /\ err' = err
                    ELSE /\ bw' = bw
                         /\ err' = res
        /\ pc' = pc + 1
        /\ UNCHANGED <<cell, prog, nodes, grad, fired>>
        /\ UNCHANGED lrVars

\* the accumulators after node m has propagated its gradient to its inputs
Propagate(g, acc, m) ==
    LET c == LocalDeriv(g, m, acc[m])
        ins == g[m].ins
        a1 == IF g[ins[1]].req
                THEN [acc EXCEPT ![ins[1]] = Accumulate(@, c[1])] ELSE acc
    IN  IF Len(ins) > 1 /\ g[ins[2]].req
          THEN [a1 EXCEPT ![ins[2]] = Accumulate(@, c[2])] ELSE a1

\* one visit of the backward pass: the next node in order either invokes its
\* derivative rule or, being a leaf, stores its accumulated gradient
BackwardStep ==
    /\ bw.active
    /\ LET m == bw.order[bw.pos]
           acc == IF nodes[m].rec THEN Propagate(nodes, bw.acc, m) ELSE bw.acc
       IN  /\ fired' = IF nodes[m].rec
                         THEN Append(fired, [n |-> m, p |-> Len(calls)]) ELSE fired
           /\ grad' = IF nodes[m].rec THEN grad
                      ELSE [grad EXCEPT ![m] = Accumulate(@, bw.acc[m])]
           /\ bw' = IF bw.pos = Len(bw.order) THEN Idle
                    ELSE [bw EXCEPT !.pos = @ + 1, !.acc = acc]
    /\ UNCHANGED <<cell, prog, pc, nodes, calls, err>>
    /\ UNCHANGED lrVars

AgInit ==
    /\ cell \in CellNames \cup {"free"}
    /\ prog \in Programs(cell)
    /\ pc = 1
    /\ nodes = <<>>
    /\ grad = <<>>
    /\ bw = Idle
    /\ fired = <<>>
    /\ calls = <<>>
    /\ err = "none"

LrOff ==
    /\ dpc = "off"
    /\ nsteps = 0
    /\ delta = 0
    /\ model = "none"
    /\ evals = <<>>

Init == AgInit /\ LrOff

Next ==
    \/ MakeLeaf
    \/ ApplyOp
    \/ Clone
    \/ Detach
    \/ RequiresGrad
    \/ Backward
    \/ BackwardStep

Spec == Init /\ [][Next]_vars

----------------------------------------------------------------------------
(* The logistic-regression cell *)

MAX_STEPS == 5000
\* distances between estimates are counted in units of PRECISION
PRECISION == 1
TrainSize == 200
TestSize == 100

\* create_simple_data(how_many): two rows per round of the loop
create_simple_data(name, how_many) ==
    [name |-> name, rows |-> 2 * (how_many \div 2),
     columns |-> <<"offset", "height", "mass", "response">>]

simple_train == create_simple_data("simple_train", TrainSize)
simple_test == create_simple_data("simple_test", TestSize)

\* evidence_matrix(dataframe): every column but the response, row for row
evidence_matrix(df) ==
    [of |-> df.name, rows |-> df.rows,
     cols |-> Len(SelectSeq(df.columns, LAMBDA c : c \notin {"Unnamed: 0", "response"}))]

\* response_vector(dataframe): the response column, one label per row
response_vector(df) == [of |-> df.name, len |-> df.rows]

\* Environment.__init__ called with the precision and the step budget swapped
LogisticRegressionTaskSwapped(X, y) ==
    [precision |-> MAX_STEPS, max_steps |-> PRECISION, X |-> X, y |-> y]

\* LogisticRegressionTask.__init__: the Environment's precision and step budget
LogisticRegressionTask(X, y) ==
    [precision |-> PRECISION, max_steps |-> MAX_STEPS, X |-> X, y |-> y]

\* the task train_logistic_regression hands to adagrad
TrainTask(data) == LogisticRegressionTask(evidence_matrix(data), response_vector(data))

\* adagrad's stopping rule after n updates, the last two estimates d apart
Stop(env, n, d) == (n >= 1 /\ d < env.precision) \/ n >= env.max_steps

\* train_logistic_regression up to the call of adagrad
Train ==
    /\ dpc = "start"
    /\ dpc' = "descent"
    /\ UNCHANGED <<nsteps, delta, model, evals>>
    /\ UNCHANGED agVars

\* one update of adagrad: a new estimate, some distance from the last one
AdagradStep ==
    /\ dpc = "descent"
    /\ ~Stop(TrainTask(simple_train), nsteps, delta)
    /\ \E d \in 0..MaxDelta :
        /\ nsteps' = nsteps + 1
        /\ delta' = d
    /\ UNCHANGED <<dpc, model, evals>>
    /\ UNCHANGED agVars

\* adagrad returns; result = steps[-1]; LogisticRegressionModel(result)
AdagradStop ==
    /\ dpc = "descent"
    /\ Stop(TrainTask(simple_train), nsteps, delta)
    /\ nsteps >= 1
    /\ dpc' = "trained"
    /\ model' = TrainTask(simple_train).X.of
    /\ UNCHANGED <<nsteps, delta, evals>>
    /\ UNCHANGED agVars

\* lr.evaluate(evidence_matrix(simple_train), response_vector(simple_test))
EvaluateTrain ==
    /\ dpc = "trained"
    /\ evals' = Append(evals, [what |-> "train",
                               evidence |-> evidence_matrix(simple_train),
                               response |-> response_vector(simple_test)])
    /\ dpc' = "evaluated"
    /\ UNCHANGED <<nsteps, delta, model>>
    /\ UNCHANGED agVars

\* lr.evaluate(evidence_matrix(simple_test), response_vector(simple_test))
EvaluateTest ==
    /\ dpc = "evaluated"
    /\ evals' = Append(evals, [what |-> "test",
                               evidence |-> evidence_matrix(simple_test),
                               response |-> response_vector(simple_test)])
    /\ dpc' = "done"
    /\ UNCHANGED <<nsteps, delta, model>>
    /\ UNCHANGED agVars

AgOff ==
    /\ cell = "logistic"
    /\ prog = <<>>
    /\ pc = 1
    /\ nodes = <<>>
    /\ grad = <<>>
    /\ bw = Idle
    /\ fired = <<>>
    /\ calls = <<>>
    /\ err = "none"

LrInit ==
    /\ AgOff
    /\ dpc = "start"
    /\ nsteps = 0
    /\ delta \in 0..MaxDelta
    /\ model = "none"
    /\ evals = <<>>

LrNext ==
    \/ Train
    \/ AdagradStep
    \/ AdagradStop
    \/ EvaluateTrain
    \/ EvaluateTest

LrSpec == LrInit /\ [][LrNext]_vars

\* the cell runs to its end: nothing suspends it
LrFairSpec == LrSpec /\ WF_vars(LrNext)

----------------------------------------------------------------------------
(* Reference computations used by the properties *)

Seed == <<Scale>>

Add0(a, b) == IF a = None THEN b ELSE IF b = None THEN a ELSE TAdd(a, b)

\* the cell c has run to its end
Finished(c) == cell = c /\ pc > Len(prog) /\ ~bw.active /\ err = "none"

\* tracked leaves
IsLeaf(n) == nodes[n].req /\ ~nodes[n].rec

\* the sum, over every path from m down to t, of the upstream gradient up
\* carried along the path through the local derivative rules
RECURSIVE PathSum(_, _, _, _)
PathSum(g, m, up, t) ==
    LET ins == g[m].ins
        via(k) == IF g[m].rec /\ Len(ins) >= k /\ g[ins[k]].req
                    THEN PathSum(g, ins[k], LocalDeriv(g, m, up)[k], t)
                    ELSE None
    IN  Add0(IF m = t THEN up ELSE None, Add0(via(1), via(2)))

\* the path sums of the first k backward() calls that went through
RECURSIVE Expected(_, _)
Expected(t, k) ==
    IF k = 0 THEN None
    ELSE Add0(Expected(t, k - 1),
              IF calls[k].res = "ok" THEN PathSum(nodes, calls[k].root, Seed, t)
              ELSE None)

\* the node a clone stands for
RECURSIVE Resolve(_, _)
Resolve(g, n) == IF g[n].src = "clone" THEN Resolve(g, g[n].ins[1]) ELSE n

\* PathSum on the graph in which every operation applied to a clone is
\* applied to its source directly
RECURSIVE DirectSum(_, _, _, _)
DirectSum(g, m, up, t) ==
    LET ins == g[m].ins
        via(k) == IF g[m].rec /\ Len(ins) >= k /\ g[ins[k]].req
                    THEN DirectSum(g, Resolve(g, ins[k]), LocalDeriv(g, m, up)[k], t)
                    ELSE None
    IN  Add0(IF m = t THEN up ELSE None, Add0(via(1), via(2)))

RECURSIVE ExpectedDirect(_, _)
ExpectedDirect(t, k) ==
    IF k = 0 THEN None
    ELSE Add0(ExpectedDirect(t, k - 1),
              IF calls[k].res = "ok"
                THEN DirectSum(nodes, Resolve(nodes, calls[k].root), Seed, t)
                ELSE None)

\* t is reached from m through operations, none of them a detach()
RECURSIVE LivePath(_, _, _)
LivePath(g, m, t) ==
    \/ m = t
    \/ /\ g[m].src \notin {"leaf", "detach"}
       /\ \E i \in 1..Len(g[m].ins) : LivePath(g, g[m].ins[i], t)

\* the operation records that consume n among those a pass from root reaches
Downstream(n, root) == {c \in Consumers(nodes, n) \cap Reach(nodes, root) : nodes[c].rec}

----------------------------------------------------------------------------
(* Properties *)

\* C1 (diamond accumulation): once the backward passes are over, the gradient
\* stored at every tracked leaf is the sum of the contributions of every path
\* from the roots to it.
C1_DiamondAccumulation ==
    ~bw.active =>
        \A x \in 1..N : IsLeaf(x) => grad[x] = Expected(x, Len(calls))

\* z = x*x + x*x, differentiated: x holds 4x
C1_Witness ==
    /\ cell = "free" /\ N = 4 /\ ~bw.active
    /\ IsLeaf(1)
    /\ nodes[2].src = "mul" /\ nodes[2].ins = <<1, 1>>
    /\ nodes[3].src = "mul" /\ nodes[3].ins = <<1, 1>>
    /\ nodes[4].src = "add" /\ nodes[4].ins = <<2, 3>>
    /\ calls = <<[root |-> 4, res |-> "ok"]>>
    /\ grad[1] = <<4 * nodes[1].val[1]>>

\* C2 (backward visiting order): a derivative rule is invoked only after every
\* downstream operation record the pass reaches has been invoked, on a fully
\* accumulated gradient, and at most once per pass.
C2_VisitingOrder ==
    /\ \A i \in 1..Len(fired) :
        /\ \A c \in Downstream(fired[i].n, calls[fired[i].p].root) :
              \E j \in 1..(i - 1) : fired[j] = [n |-> c, p |-> fired[i].p]
        /\ \A j \in 1..Len(fired) : j # i => fired[j] # fired[i]
    /\ bw.active =>
        bw.acc[bw.order[bw.pos]] = PathSum(nodes, bw.root, Seed, bw.order[bw.pos])

\* a pass over: some operation record with two consumers was invoked
C2_Witness ==
    /\ ~bw.active
    /\ \E i \in 1..Len(fired) :
          Cardinality(Downstream(fired[i].n, calls[fired[i].p].root)) >= 2

\* C3 (tracking-flag propagation): the flag of every operation's output is the
\* OR of its inputs' flags, only detach() clears it downstream of a tracked
\* node, and the flags cell ends with theta, c, h, a tracked and b untracked.
C3_FlagPropagation ==
    /\ \A n \in 1..N :
        /\ nodes[n].src \in ArithOps \cup {"clone"} =>
              /\ nodes[n].req = (\E i \in 1..Len(nodes[n].ins) : nodes[nodes[n].ins[i]].req)
              /\ nodes[n].rec = nodes[n].req
        /\ (~nodes[n].req /\ \E i \in 1..Len(nodes[n].ins) : nodes[nodes[n].ins[i]].req)
              => nodes[n].src = "detach"
    /\ Finished("flags") =>
          [n \in {1, 2, 4, 6, 8} |-> nodes[n].req]
              = (1 :> TRUE @@ 2 :> FALSE @@ 4 :> TRUE @@ 6 :> TRUE @@ 8 :> TRUE)

\* the flags cell at its end: c = b / cos(theta) is tracked, its input b is not
C3_Witness ==
    /\ Finished("flags")
    /\ nodes[4].src = "div" /\ nodes[4].req /\ ~nodes[2].req /\ nodes[1].req

\* C4 (untracked root): backward() on a scalar root whose flag is false fails
\* with UntrackedRoot, nothing is traversed, and no gradient slot is filled;
\* the untracked-theta cell ends this way.
C4_UntrackedRoot ==
    /\ \A k \in 1..Len(calls) :
          (~nodes[calls[k].root].req /\ Len(nodes[calls[k].root].val) = 1)
              => /\ calls[k].res = "UntrackedRoot"
                 /\ err = "UntrackedRoot"
                 /\ k = Len(calls)
    /\ err = "UntrackedRoot" =>
          /\ ~bw.active
          /\ \A i \in 1..Len(fired) : fired[i].p # Len(calls)
          /\ \A x \in 1..N :
                grad[x] = IF IsLeaf(x) THEN Expected(x, Len(calls) - 1) ELSE None
    /\ (cell = "untracked" /\ pc > Len(prog)) =>
          /\ err = "UntrackedRoot"
          /\ \A x \in 1..N : grad[x] = None

\* the untracked-theta cell after a.backward()
C4_Witness ==
    /\ cell = "untracked" /\ pc > Len(prog)
    /\ calls = <<[root |-> 8, res |-> "UntrackedRoot"]>>

\* what the detach cell ends with: a empty, b = 2b
C5_Cell ==
    Finished("detach") =>
        /\ grad[1] = None
        /\ grad[2] = None
        /\ grad[3] = <<2 * nodes[3].val[1]>>

\* C5 (detach law): a step of a backward pass leaves untouched the slot of
\* every node its root reaches only across a detach(), a detached node has
\* the payload of its source and no operation record, and the detach cell
\* ends with a's slot empty and b's gradient in b.
C5_DetachLaw ==
    [][ /\ bw.active =>
             \A a \in 1..N : ~LivePath(nodes, bw.root, a) =>
                 /\ grad'[a] = grad[a]
                 /\ bw.acc[a] = None
        /\ \A d \in 1..N : nodes[d].src = "detach" =>
                 /\ ~nodes[d].rec
                 /\ nodes[d].val = nodes[nodes[d].ins[1]].val
        /\ C5_Cell' ]_vars

\* a holds the gradient of a first pass; b = a.detach(), re-flagged, has been
\* differentiated through in a second pass
C5_Witness ==
    /\ cell = "free" /\ ~bw.active /\ N = 4
    /\ nodes[3].src = "detach" /\ nodes[3].ins = <<1>> /\ nodes[3].req
    /\ nodes[2].ins = <<1, 1>> /\ nodes[2].src = "mul"
    /\ nodes[4].ins = <<3, 3>> /\ nodes[4].src = "mul"
    /\ calls = <<[root |-> 2, res |-> "ok"], [root |-> 4, res |-> "ok"]>>
    /\ grad[1] = <<2 * nodes[1].val[1]>>
    /\ grad[3] = <<2 * nodes[1].val[1]>>

\* C6 (clone law): a clone has the flag of its source, its own slot stays
\* empty, and the source receives what it would have received had the
\* operations been applied to it directly (2a for c = b**2).
C6_CloneLaw ==
    /\ \A b \in 1..N : nodes[b].src = "clone" =>
          /\ nodes[b].req = nodes[nodes[b].ins[1]].req
          /\ grad[b] = None
    /\ ~bw.active =>
          \A a \in 1..N : IsLeaf(a) => grad[a] = ExpectedDirect(a, Len(calls))
    /\ Finished("clone") => grad[1] = <<2 * nodes[1].val[1]>>
    /\ Finished("cloneflag") => nodes[2].req

\* the clone cell at a = 4: dc/da = 8, dc/db empty
C6_Witness ==
    /\ Finished("clone")
    /\ nodes[1].val = <<Fix(4)>>
    /\ nodes[2].src = "clone"
    /\ grad = <<<<Fix(8)>>, None, None>>

\* C7 (non-tracked leaf): a node whose flag is false never has a gradient, in
\* its slot or in the pass's accumulators, and is not visited; the triangle
\* cell ends with b's slot empty and theta holding its full gradient.
C7_UntrackedLeaf ==
    /\ \A n \in 1..N : ~nodes[n].req =>
          /\ grad[n] = None
          /\ bw.active => bw.acc[n] = None /\ ~InSeq(n, bw.order)
    /\ Finished("triangle") =>
          /\ grad[2] = None
          /\ grad[1] # None
          /\ grad[1] = PathSum(nodes, 8, Seed, 1)

\* the triangle cell after a.backward()
C7_Witness ==
    /\ Finished("triangle")
    /\ ~nodes[2].req /\ nodes[2].src = "leaf"
    /\ nodes[7].ins = <<6, 2>>
    /\ grad[1] # None

\* C8 (chain-rule composition): the chain-rule cell leaves at x the gradient
\* 6*(x+2), elementwise and of the shape of x.
C8_ChainRule ==
    Finished("chain") =>
        /\ Len(grad[1]) = Len(nodes[1].val)
        /\ \A i \in 1..4 : grad[1][i] = 6 * (nodes[1].val[i] + Fix(2))

\* the chain-rule cell at x = [[1,2],[3,4]]
C8_Witness ==
    /\ Finished("chain")
    /\ nodes[1].val = <<Fix(1), Fix(2), Fix(3), Fix(4)>>
    /\ grad[1] = <<Fix(18), Fix(24), Fix(30), Fix(36)>>

C10_EvalPaired ==
    \A i \in 1..Len(evals) :
        /\ evals[i].evidence.rows = evals[i].response.len
        /\ evals[i].evidence.of = evals[i].response.of
        /\ evals[i].what = "train" => evals[i].evidence.of = "simple_train"
        /\ evals[i].what = "test" => evals[i].evidence.of = "simple_test"

====
